---- MODULE Spec2Model ----
(***************************************************************************)
(* A model of the Recorded Future API client library: the auth provider    *)
(* (RFTokenAuth), the query clients (RawApiClient.query, the older         *)
(* ApiClient.query, ConnectApiClient._query), the response wrapper         *)
(* (BaseQueryResponse) and the paged query generator (paged_query).        *)
(*                                                                         *)
(* One run of the model is one client: it is constructed, the environment  *)
(* may change, and then one operation is called and driven to its end.     *)
(* The HTTP server is the environment: every request is answered by one    *)
(* of the outcomes of ServerOutcomes.                                      *)
(***************************************************************************)
EXTENDS Integers, Sequences, FiniteSets, TLC

\* ------------------------------------------------------------------ bounds
MaxLimit == 3     \* the largest limit argument of paged_query
MaxBatch == 2     \* the largest batch_size argument of paged_query
MaxTotal == 4     \* the largest data set of the honest server
MaxRows == 2     \* the longest page an arbitrary server returns
MaxPages == 3     \* page requests after which the model stops a paging run
MaxTries == 3     \* the largest tries_left argument of a query call
MaxCount == 2     \* the largest count or cursor a probed response carries

\* ------------------------------------------------------- program constants
DEFAULT_RETRIES == 3

\* Python's None, in integer-valued fields (counts, limits, cursors).
None == 0 - 1

\* The outcome of a property whose evaluation raises KeyError.
KeyErr == 0 - 2

Min(a, b) == IF a <= b THEN a ELSE b

RECURSIVE SelectSeqBy(_, _)
\* The subsequence of the yielded values whose tag is t.
SelectSeqBy(s, t) ==
    IF s = <<>> THEN <<>>
    ELSE IF Head(s).t = t THEN <<Head(s)>> \o SelectSeqBy(Tail(s), t)
    ELSE SelectSeqBy(Tail(s), t)

RECURSIVE Values(_)
Values(s) == IF s = <<>> THEN <<>> ELSE <<Head(s).v>> \o Values(Tail(s))

IsPrefix(s, t) == Len(s) <= Len(t) /\ SubSeq(t, 1, Len(s)) = s

\* ------------------------------------------------------------------ queries
\* A query is its one top-level key (key), the fields of that key's body
\* that the client reads or writes (searchtype, page_start, limit), the
\* output mapping (format, count) and the comment the old client adds.
RecognizedKinds == {"instance", "reference", "entity", "source", "cluster"}

MkQuery(key, searchtype, page_start, limit, format, count) ==
    [key |-> key, searchtype |-> searchtype, page_start |-> page_start,
     limit |-> limit, format |-> format, count |-> count, comment |-> FALSE]

\* get_query_type: the key of _QUERY_TYPE_MAP found in the query, else None.
get_query_type(q) == IF q.key \in RecognizedKinds THEN q.key ELSE "None"

\* ---------------------------------------------------------------- variables
VARIABLES
    client,        \* "raw" (RawApiClient), "legacy" (ApiClient), "connect"
    authArg,       \* the auth argument: "none", "auto" or "token"
    env,           \* os.environ: RF_TOKEN and RECFUT_TOKEN ("unset" or a token)
    hasAuth,       \* self._auth is set
    token,         \* self._auth.token ("None" when it is None)
    op,            \* the operation called on the client
    heap,          \* the query objects: the caller's and the copies
    pheap,         \* the params objects: the caller's and the copy
    origQuery,     \* the caller's query as passed
    origParams,    \* the caller's params as passed
    pqRef,         \* the object paged_query's local `query` names
    qRef,          \* the object query's local `query` names
    pRef,          \* the object query's local `params` names
    limit, batch_size, field, unique, raw,   \* paged_query's arguments
    pc,            \* where the run is
    tries0,        \* the tries_left argument of the call
    tries_left,    \* query's tries_left
    requests,      \* HTTP requests issued by the current query call
    totalRequests, \* HTTP requests issued by the run, within the page cap
    sentToken,     \* the token of the last request's Authorization header
    resp,          \* the outcome of the last HTTP request
    qret,          \* what the current query call returned: a response class
    built,         \* the constructor's outcome: "no", "yes", "failed"
    fin,           \* "running", "returned", "raised", "abandoned"
    err,           \* the error raised ("none" when none)
    n_results, seen, pending, out, fetched, pages,
    honest,        \* the server pages its data set as asked
    dataN,         \* the size of the honest server's data set
    hashable,      \* the items the field resolves to are hashable
    entity_id,     \* the argument of get_entity
    ret,           \* the value get_entity returned
    errArgs,       \* the code and message a RemoteServerError carries
    probe,         \* the values read from a response's properties
    firstSent,     \* body and params of the current query call's first request
    lastSent,      \* body and params of the last HTTP request
    dot            \* a dot_index call: its arguments and results

vars == <<client, authArg, env, hasAuth, token, op, heap, pheap,
          origQuery, origParams, pqRef, qRef, pRef, limit, batch_size, field,
          unique, raw, pc, tries0, tries_left, requests, totalRequests,
          sentToken, resp, qret, built, fin, err, n_results, seen, pending, out,
          fetched, pages, honest, dataN, hashable, entity_id, ret, errArgs,
          probe, firstSent, lastSent, dot>>

\* --------------------------------------------------------------------- auth
\* RFTokenAuth._find_token of the client's auth module: RF_TOKEN, then the
\* legacy RECFUT_TOKEN; with neither it raises MissingAuthError ("raise").
find_token(e) ==
    IF e.RF_TOKEN # "unset" THEN e.RF_TOKEN
    ELSE IF e.RECFUT_TOKEN # "unset" THEN e.RECFUT_TOKEN
    ELSE "raise"

\* The older auth module: with neither variable it returns None.
find_token_legacy(e) ==
    IF e.RF_TOKEN # "unset" THEN e.RF_TOKEN
    ELSE IF e.RECFUT_TOKEN # "unset" THEN e.RECFUT_TOKEN
    ELSE "None"

\* RFTokenAuth.__init__: the token is looked up when the object is built.
RFTokenAuthInit(c, arg, e) ==
    IF arg = "auto"
    THEN (IF c = "legacy" THEN find_token_legacy(e) ELSE find_token(e))
    ELSE "tokA"

\* RFTokenAuth.__call__: without a token it raises MissingAuthError.
AuthCall(tok) == IF tok = "None" THEN "MissingAuthError" ELSE "ok"

\* A faulty _check_auth: it lets a client without auth through.
check_auth_never(auth) == "ok"

\* BaseApiClient._check_auth (and the same test inside ApiClient.query).
check_auth(auth) == IF ~auth THEN "MissingAuthError" ELSE "ok"

\* ------------------------------------------------------- copies and params
QRefs == {"caller", "paged", "call"}
PRefs == {"caller", "call"}

\* A faulty copy: no copy is made, the result names the object itself.
DeepCopyAlias(h, src, dst) == [ref |-> src, heap |-> h]

\* copy.deepcopy(h[src]) stored as object dst; the result names dst.
DeepCopy(h, src, dst) == [ref |-> dst, heap |-> [h EXCEPT ![dst] = h[src]]]

\* A params object: None, or a dict that may hold app_id.
MkParams(isNone, app_id) == [isNone |-> isNone, app_id |-> app_id]

\* BaseApiClient._prepare_params: a new dict for None, else a deep copy;
\* app_id is set on that object.
prepare_params(ph, src) ==
    IF ph[src].isNone
    THEN [ref |-> "call", heap |-> [ph EXCEPT !["call"] = MkParams(FALSE, TRUE)]]
    ELSE [ref |-> "call",
          heap |-> [ph EXCEPT !["call"] = [ph[src] EXCEPT !.app_id = TRUE]]]

\* ---------------------------------------------------------------- responses
\* An HTTP response: status, content type, whether the body decodes as JSON,
\* whether the decoded body has a non-null error field, whether it has
\* status == FAILURE, the rows (items) of the body, the X-RF-RETURNED-COUNT,
\* X-RF-TOTAL-COUNT and X-RF-NEXT-PAGE-START headers, the embedded counts
\* object (counts, with its returned and total), the term-query result
\* object (term, with its count and total_count), a cursor embedded in the
\* body (bNext), the code field of the body, and the entity_details mapping
\* (hasDetails, and the ids it has an entry for). An absent key is None.
Resp(status, ctype, jsonOk, errMsg, failure, rows, hReturned, hTotal, hNext) ==
    [status |-> status, ctype |-> ctype, jsonOk |-> jsonOk, errMsg |-> errMsg,
     failure |-> failure, rows |-> rows, hReturned |-> hReturned,
     hTotal |-> hTotal, hNext |-> hNext,
     counts |-> FALSE, cReturned |-> None, cTotal |-> None,
     term |-> FALSE, tCount |-> None, tTotal |-> None,
     bNext |-> None, code |-> None, hasDetails |-> FALSE, details |-> {}]

NoResp == Resp(0, "none", FALSE, FALSE, FALSE, <<>>, None, None, None)

\* The outcome of a request that ended in a read timeout: no response.
TimeoutResp == Resp(0, "timeout", FALSE, FALSE, FALSE, <<>>, None, None, None)

\* BaseQueryResponse.returned_count: the header; else, when the body has a
\* counts object, counts.get('returned', None); else, when it has a result
\* object, result['count'], a KeyError when that key is missing; else None.
returned_count(r) ==
    IF r.hReturned # None THEN r.hReturned
    ELSE IF r.counts THEN r.cReturned
    ELSE IF r.term THEN (IF r.tCount = None THEN KeyErr ELSE r.tCount)
    ELSE None

\* BaseQueryResponse.total_count: the header; else, when the body has a
\* counts object, counts['total'] if it is there and None if not; else,
\* when it has a result object, result['total_count'], a KeyError when that
\* key is missing; else None.
total_count(r) ==
    IF r.hTotal # None THEN r.hTotal
    ELSE IF r.counts THEN r.cTotal
    ELSE IF r.term THEN (IF r.tTotal = None THEN KeyErr ELSE r.tTotal)
    ELSE None

\* A faulty next_page_start: a cursor embedded in the body comes first.
next_page_start_body_first(r) == IF r.bNext # None THEN r.bNext ELSE r.hNext

\* BaseQueryResponse.next_page_start: the X-RF-NEXT-PAGE-START header.
next_page_start(r) == r.hNext

\* A faulty has_more_results: equal counts end the results also when both
\* are None.
has_more_results_unguarded(r) ==
    IF next_page_start(r) = None THEN "False"
    ELSE IF returned_count(r) = KeyErr \/ total_count(r) = KeyErr
    THEN "KeyError"
    ELSE IF returned_count(r) = total_count(r) THEN "False"
    ELSE "True"

\* A faulty has_more_results: it reports more results with or without a
\* cursor.
has_more_results_always(r) == "True"

\* BaseQueryResponse.has_more_results: "True", "False", or "KeyError" when
\* a count it reads raises.
has_more_results(r) ==
    IF next_page_start(r) = None THEN "False"
    ELSE IF returned_count(r) = KeyErr THEN "KeyError"
    ELSE IF returned_count(r) = None THEN "True"
    ELSE IF total_count(r) = KeyErr THEN "KeyError"
    ELSE IF returned_count(r) = total_count(r) THEN "False"
    ELSE "True"

\* ------------------------------------------------------------------- server
\* The bodies of a failed response: not JSON; labelled JSON but undecodable;
\* JSON without an error field; JSON with an error message.
ErrorBodies ==
    { [ctype |-> "html", jsonOk |-> FALSE, errMsg |-> FALSE],
      [ctype |-> "json", jsonOk |-> FALSE, errMsg |-> FALSE],
      [ctype |-> "json", jsonOk |-> TRUE,  errMsg |-> FALSE],
      [ctype |-> "json", jsonOk |-> TRUE,  errMsg |-> TRUE] }

ErrorStatuses == {401, 404, 502, 503}

ErrorResponses ==
    { Resp(s, b.ctype, b.jsonOk, b.errMsg, FALSE, <<>>, None, None, None) :
        s \in ErrorStatuses, b \in ErrorBodies }

\* The page an honest server holding items 1..N returns for body q: the
\* items after the cursor, at most q.limit of them, with the three headers.
HonestPage(q, N) ==
    LET c == IF q.page_start = None THEN 0 ELSE Min(q.page_start, N)
        want == IF q.limit = None THEN MaxRows ELSE q.limit
        k == Min(want, N - c)
    IN Resp(200, q.format, TRUE, FALSE, FALSE, [i \in 1..k |-> c + i],
            k, N, IF c + k < N THEN c + k ELSE None)

\* The rows an arbitrary server may put in a page when it has served
\* `served` items: up to MaxRows new items, or (overlap) a page that starts
\* again with the last item served.
ArbitraryRows(served, overlap) ==
    { [i \in 1..k |-> s + i] :
        k \in 0..MaxRows,
        s \in {served} \cup (IF overlap /\ served > 0 THEN {served - 1} ELSE {}) }

\* The successful responses of a server that may answer anything: any
\* number of rows, the count headers present or not, a total that is 0,
\* equals the page's count or is large, a cursor or none. After MaxPages
\* pages the pages it serves are empty.
ArbitraryPages(q, pg, served, overlap) ==
    UNION { { Resp(200, q.format, TRUE, FALSE, FALSE, rows,
                   IF hasRet THEN Len(rows) ELSE None, tot, nxt) :
                hasRet \in BOOLEAN, tot \in {None, 0, Len(rows), MaxTotal},
                nxt \in {None, pg + 1} } :
            rows \in IF pg >= MaxPages THEN {<<>>}
                     ELSE ArbitraryRows(served, overlap) }

\* A successful response whose JSON body does not decode, and those whose
\* body reports status FAILURE, with or without a code (500) and an error
\* field.
BadJson(q) ==
    IF q.format = "json"
    THEN { Resp(200, "json", FALSE, FALSE, FALSE, <<>>, None, None, None) }
         \cup { [Resp(200, "json", TRUE, e, TRUE, <<>>, None, None, None)
                   EXCEPT !.code = c] :
                 e \in BOOLEAN, c \in {None, 500} }
    ELSE {}

\* The ids an entity query is made for and a response has details of.
EntityIds == {"X1", "X2"}

\* The successful responses to an entity query: a body without
\* entity_details, or with entity_details holding entries for some ids.
EntityPages ==
    { Resp(200, "json", TRUE, FALSE, FALSE, <<>>, None, None, None) }
    \cup { [Resp(200, "json", TRUE, FALSE, FALSE, <<>>, None, None, None)
               EXCEPT !.hasDetails = TRUE, !.details = d] :
             d \in SUBSET EntityIds }

\* Every outcome of the HTTP request of get_entity.
EntityOutcomes(q) ==
    { [timeout |-> TRUE, r |-> TimeoutResp] }
    \cup { [timeout |-> FALSE, r |-> r] :
             r \in { x \in ErrorResponses : x.ctype = "html" } }
    \cup { [timeout |-> FALSE, r |-> r] : r \in EntityPages \cup BadJson(q) }

\* The failed responses of a run: all of them for a single query call; a
\* paging run meets the transient ones (read timeout, HTTP 503).
Failures(paging) ==
    IF paging
    THEN { r \in ErrorResponses : r.status = 503 /\ r.ctype = "html" }
    ELSE ErrorResponses

\* Every outcome of one HTTP request with body q: a read timeout, a failed
\* response, or a successful one.
ServerOutcomes(q, pg, hon, N, served, paging, overlap) ==
    { [timeout |-> TRUE, r |-> TimeoutResp] }
    \cup { [timeout |-> FALSE, r |-> r] : r \in Failures(paging) }
    \cup { [timeout |-> FALSE, r |-> r] :
             r \in IF hon THEN {HonestPage(q, N)}
                   ELSE ArbitraryPages(q, pg, served, overlap) \cup BadJson(q) }

\* ------------------------------------------------------------ query clients
\* A faulty _raise_http_error: the transport's error is raised again as it
\* is, the body is not looked at.
raise_http_error_unwrapped(r) == "HTTPError"

\* BaseApiClient._raise_http_error: the error it raises for response r.
raise_http_error(r) ==
    IF r.ctype = "json" /\ r.jsonOk
    THEN (IF r.status = 401 THEN "AuthenticationError"
          ELSE IF r.errMsg THEN "HttpError"
          ELSE "HTTPError")
    ELSE "HTTPError"

\* expect_json of RawApiClient.query: no output format, or format json.
expect_json(q) == q.format = "json"

\* BaseApiClient._validate_json_response: it accepts every body.
validate_json_response_pass(r) ==
    [raise |-> FALSE, code |-> None, error |-> "none"]

\* RawApiClient._validate_json_response: a body with status FAILURE raises
\* RemoteServerError, whose message holds the body's code (None without
\* one) and its error (the text NONE without one).
validate_json_response(r) ==
    IF r.failure
    THEN [raise |-> TRUE, code |-> r.code,
          error |-> IF r.errMsg THEN "server message" ELSE "NONE"]
    ELSE [raise |-> FALSE, code |-> None, error |-> "none"]

\* BaseApiClient._make_response with RawApiClient._validate_json_response:
\* the class of the response object, or the error raised.
make_response(q, r) ==
    IF expect_json(q)
    THEN (IF ~r.jsonOk THEN [act |-> "raise", err |-> "JsonParseError"]
          ELSE IF validate_json_response(r).raise
          THEN [act |-> "raise", err |-> "RemoteServerError"]
          ELSE [act |-> "return", err |-> "JSON"])
    ELSE IF r.ctype = "csv" THEN [act |-> "return", err |-> "CSV"]
    ELSE [act |-> "return", err |-> "Base"]

\* What requests.post is given: the JSON body and the params.
Sent(body, params) == [sent |-> TRUE, body |-> body, params |-> params]

\* A faulty retry: the query is sent again without its cursor.
retry_query_restart(q) == [q EXCEPT !.page_start = None]

\* The query a retry passes to the recursive call of query: the object it
\* was working on, as it is.
retry_query(q) == q

\* is_scan and the page_start test of RawApiClient.query.
is_scan(q) == get_query_type(q) # "None" /\ q.searchtype = "scan"

scan_with_cursor(q) == is_scan(q) /\ q.page_start # None

\* A faulty RawApiClient.query: it retries without looking at the budget.
raw_step_unbounded(q, tries, o) ==
    IF o.timeout \/ o.r.status \in {502, 503}
    THEN [act |-> "retry", err |-> "none"]
    ELSE IF o.r.status # 200
    THEN [act |-> "raise", err |-> raise_http_error(o.r)]
    ELSE make_response(q, o.r)

\* A faulty RawApiClient.query: with the budget used up it swallows the
\* transient failure and returns None.
raw_step_swallow(q, tries, o) ==
    IF o.timeout
    THEN (IF scan_with_cursor(q) THEN [act |-> "raise", err |-> "ReadTimeout"]
          ELSE IF tries > 0 THEN [act |-> "retry", err |-> "none"]
          ELSE [act |-> "return", err |-> "NoneType"])
    ELSE IF o.r.status \in {502, 503} /\ tries > 0
    THEN [act |-> "retry", err |-> "none"]
    ELSE IF o.r.status \in {502, 503}
    THEN [act |-> "return", err |-> "NoneType"]
    ELSE IF o.r.status # 200
    THEN [act |-> "raise", err |-> raise_http_error(o.r)]
    ELSE make_response(q, o.r)

\* A faulty RawApiClient.query: a timed-out scan page is retried as well.
raw_step_retry_scan(q, tries, o) ==
    IF o.timeout
    THEN (IF tries > 0 THEN [act |-> "retry", err |-> "none"]
          ELSE [act |-> "raise", err |-> "ReadTimeout"])
    ELSE IF o.r.status \in {502, 503} /\ tries > 0
    THEN [act |-> "retry", err |-> "none"]
    ELSE IF o.r.status # 200
    THEN [act |-> "raise", err |-> raise_http_error(o.r)]
    ELSE make_response(q, o.r)

\* A faulty RawApiClient.query: a 502/503 answer to a scan page is raised
\* at once, as its timeout is.
raw_step_scan_once(q, tries, o) ==
    IF o.timeout
    THEN (IF scan_with_cursor(q) THEN [act |-> "raise", err |-> "ReadTimeout"]
          ELSE IF tries > 0 THEN [act |-> "retry", err |-> "none"]
          ELSE [act |-> "raise", err |-> "ReadTimeout"])
    ELSE IF o.r.status \in {502, 503} /\ tries > 0 /\ ~scan_with_cursor(q)
    THEN [act |-> "retry", err |-> "none"]
    ELSE IF o.r.status # 200
    THEN [act |-> "raise", err |-> raise_http_error(o.r)]
    ELSE make_response(q, o.r)

\* What RawApiClient.query does with the outcome o of its request, with
\* budget tries: retry, raise err, or return a response of class err.
raw_step(q, tries, o) ==
    IF o.timeout
    THEN (IF scan_with_cursor(q) THEN [act |-> "raise", err |-> "ReadTimeout"]
          ELSE IF tries > 0 THEN [act |-> "retry", err |-> "none"]
          ELSE [act |-> "raise", err |-> "ReadTimeout"])
    ELSE IF o.r.status \in {502, 503} /\ tries > 0
    THEN [act |-> "retry", err |-> "none"]
    ELSE IF o.r.status # 200
    THEN [act |-> "raise", err |-> raise_http_error(o.r)]
    ELSE make_response(q, o.r)

\* ApiClient.query (the older client): every failure is raised again, there
\* is no retry; a JSON body that fails to decode reaches the handler that
\* reads the unbound name resp.
legacy_step(q, tries, o) ==
    IF o.timeout THEN [act |-> "raise", err |-> "ReadTimeout"]
    ELSE IF o.r.status # 200 THEN [act |-> "raise", err |-> "HTTPError"]
    ELSE IF expect_json(q)
    THEN (IF ~o.r.jsonOk THEN [act |-> "raise", err |-> "UnboundLocalError"]
          ELSE IF o.r.failure THEN [act |-> "raise", err |-> "RemoteServerError"]
          ELSE [act |-> "return", err |-> "JSON"])
    ELSE IF o.r.ctype = "csv" THEN [act |-> "return", err |-> "CSV"]
    ELSE [act |-> "return", err |-> "Base"]

\* ConnectApiClient._query: a read timeout is retried while tries > 0; every
\* HTTP error goes to _raise_http_error; the JSON body is not validated.
connect_step(q, tries, o) ==
    IF o.timeout
    THEN (IF tries > 0 THEN [act |-> "retry", err |-> "none"]
          ELSE [act |-> "raise", err |-> "ReadTimeout"])
    ELSE IF o.r.status # 200
    THEN [act |-> "raise", err |-> raise_http_error(o.r)]
    ELSE IF ~o.r.jsonOk THEN [act |-> "raise", err |-> "JsonParseError"]
    ELSE [act |-> "return", err |-> "JSON"]

client_step(c, q, tries, o) ==
    IF c = "raw" THEN raw_step(q, tries, o)
    ELSE IF c = "legacy" THEN legacy_step(q, tries, o)
    ELSE connect_step(q, tries, o)

\* -------------------------------------------------------------- paged_query
\* A faulty per-page limit: the query's limit is left as the caller set it.
page_limit_unset(lim, bs) == None

\* The per-page limit paged_query writes into the query body.
page_limit(lim, bs) == IF lim = None THEN bs ELSE Min(bs, lim)

\* A faulty head of paged_query: aggregate queries are not rejected.
paged_check_no_aggregate(c, q) ==
    IF c = "raw"
    THEN (IF get_query_type(q) = "None" THEN "InvalidRFQError" ELSE "ok")
    ELSE (IF get_query_type(q) = "None" THEN "UnknownQueryTypeError" ELSE "ok")

\* The checks at the head of paged_query: the error raised, or "ok".
paged_check(c, q) ==
    IF c = "raw"
    THEN (IF get_query_type(q) = "None" THEN "InvalidRFQError"
          ELSE IF q.count THEN "InvalidRFQError"
          ELSE "ok")
    ELSE (IF get_query_type(q) = "None" THEN "UnknownQueryTypeError" ELSE "ok")

\* A faulty page_mode: the older client goes on paging after a response
\* that is neither JSON nor CSV.
page_mode_always_pages(c, rw, cls, fld) ==
    IF c = "raw" /\ rw THEN "count"
    ELSE IF cls = "JSON"
    THEN (IF fld THEN "items" ELSE IF c = "raw" THEN "count" ELSE "plain")
    ELSE IF cls = "CSV" THEN "csv"
    ELSE IF c = "raw" THEN "count" ELSE "plain"

\* How paged_query treats a page: "count" (add returned_count and yield the
\* page), "plain" (yield the page), "last" (yield the page and return),
\* "items" (iterate the field's items), "csv" (header, then the rows).
page_mode(c, rw, cls, fld) ==
    IF c = "raw" /\ rw THEN "count"
    ELSE IF cls = "JSON"
    THEN (IF fld THEN "items" ELSE IF c = "raw" THEN "count" ELSE "plain")
    ELSE IF cls = "CSV" THEN "csv"
    ELSE IF c = "raw" THEN "count" ELSE "last"

\* The rows the CSV loop iterates: the reader's rows; the older client
\* first calls next(csv_reader), which consumes the first data row.
csv_rows(c, rows) == IF c = "legacy" THEN Tail(rows) ELSE rows

\* Whether the header row is yielded for this page.
yield_header(n) == n = 0

\* A faulty test: the limit is never found reached.
limit_reached_never(lim, n) == FALSE

\* The test after each yielded item or row.
limit_reached(lim, n) == lim # None /\ n >= lim

\* The tests at the end of a page: "return", "advance", "none_total" when
\* total_count is None and is compared with n_results, or "key_error" when
\* a count that is read raises.
page_end(c, r, n, lim) ==
    IF c = "raw"
    THEN (IF total_count(r) = KeyErr THEN "key_error"
          ELSE IF total_count(r) = None THEN "none_total"
          ELSE IF total_count(r) <= n THEN "return"
          ELSE IF has_more_results(r) = "KeyError" THEN "key_error"
          ELSE IF has_more_results(r) = "False" THEN "return"
          ELSE IF limit_reached(lim, n) THEN "return"
          ELSE "advance")
    ELSE (IF has_more_results(r) = "KeyError" THEN "key_error"
          ELSE IF has_more_results(r) = "False" THEN "return"
          ELSE "advance")

\* A faulty advance: the per-page limit is dropped with the old cursor.
advance_cursor_drop_limit(q, r) ==
    [q EXCEPT !.page_start = next_page_start(r), !.limit = None]

\* The last statement of paged_query's loop: the cursor of the response is
\* written into the query's kind body.
advance_cursor(q, r) == [q EXCEPT !.page_start = next_page_start(r)]

\* A faulty loop: the budget left by the last page is passed on.
page_budget_carried(tries) == tries

\* The budget of the next page's request: paged_query calls
\* self.query(query), so tries_left takes its default.
page_budget(tries) == DEFAULT_RETRIES

\* The page requests the model follows: an honest server's data set ends
\* within MaxTotal + 1 pages; a server that may answer anything is followed
\* for MaxPages pages, and further only through pages that yield nothing.
PageCap(hon) == IF hon THEN MaxTotal + 1 ELSE MaxPages

\* A faulty get_entity: it builds the Entity from whatever entry the
\* response holds.
get_entity_any_entry(r, id) ==
    IF r.hasDetails /\ r.details # {}
    THEN [kind |-> "Entity", id |-> id, entry |-> CHOOSE e \in r.details : TRUE]
    ELSE [kind |-> "None", id |-> "none", entry |-> "none"]

\* What get_entity returns for response r: the Entity built from the entry
\* entity_details holds under id, with its id set; None when the lookup
\* raises KeyError.
get_entity(r, id) ==
    IF r.hasDetails /\ id \in r.details
    THEN [kind |-> "Entity", id |-> id, entry |-> id]
    ELSE [kind |-> "None", id |-> "none", entry |-> "none"]

\* ------------------------------------------------------------------ actions
Raise(e) == /\ fin' = "raised" /\ err' = e /\ pc' = "done"

Return == /\ fin' = "returned" /\ err' = err /\ pc' = "done"

\* The constructor: BaseApiClient.__init__ / ApiClient.__init__. With a
\* string auth it builds RFTokenAuth, which looks the token up at once.
Construct ==
    /\ pc = "ctor"
    /\ IF authArg = "none"
       THEN /\ hasAuth' = FALSE /\ token' = "None" /\ built' = "yes"
            /\ pc' = "idle" /\ UNCHANGED <<fin, err>>
       ELSE LET tok == RFTokenAuthInit(client, authArg, env) IN
            IF tok = "raise"
            THEN /\ hasAuth' = FALSE /\ token' = "None" /\ built' = "failed"
                 /\ Raise("MissingAuthError")
            ELSE /\ hasAuth' = TRUE /\ token' = tok /\ built' = "yes"
                 /\ pc' = "idle" /\ UNCHANGED <<fin, err>>
    /\ UNCHANGED <<firstSent, lastSent, dot>>
    /\ UNCHANGED <<hashable, entity_id, ret, errArgs, probe>>
    /\ UNCHANGED <<client, authArg, env, op, heap, pheap, origQuery,
                   origParams, pqRef, qRef, pRef, limit, batch_size, field,
                   unique, raw, tries0, tries_left, requests, totalRequests,
                   sentToken, resp, qret, n_results, seen, pending, out,
                   fetched, pages, honest, dataN>>

\* The environment gets a token after the client is built and before the
\* operation is called.
EnvChange ==
    /\ pc = "idle"
    /\ authArg = "auto"
    /\ \/ /\ env.RF_TOKEN = "unset"
          /\ env' = [env EXCEPT !.RF_TOKEN = "tokA"]
       \/ /\ env.RECFUT_TOKEN = "unset"
          /\ env' = [env EXCEPT !.RECFUT_TOKEN = "tokB"]
    /\ UNCHANGED <<firstSent, lastSent, dot>>
    /\ UNCHANGED <<hashable, entity_id, ret, errArgs, probe>>
    /\ UNCHANGED <<client, authArg, hasAuth, token, op, heap, pheap,
                   origQuery, origParams, pqRef, qRef, pRef, limit,
                   batch_size, field, unique, raw, pc, tries0, tries_left,
                   requests, totalRequests, sentToken, resp, qret, built, fin,
                   err, n_results, seen, pending, out, fetched, pages, honest,
                   dataN>>

\* The head of paged_query, run by the first pull: copy the query, reject
\* what cannot be paged, write the per-page limit.
PagedStart ==
    /\ pc = "idle" /\ op = "paged_query"
    /\ LET c == DeepCopy(heap, "caller", "paged")
           chk == paged_check(client, c.heap[c.ref])
       IN /\ pqRef' = c.ref
          /\ IF chk # "ok"
             THEN /\ heap' = c.heap
                  /\ Raise(chk)
             ELSE /\ heap' = [c.heap EXCEPT
                                ![c.ref].limit = page_limit(limit, batch_size)]
                  /\ pc' = "q_enter"
                  /\ UNCHANGED <<fin, err>>
    /\ UNCHANGED <<firstSent, lastSent, dot>>
    /\ UNCHANGED <<hashable, entity_id, ret, errArgs, probe>>
    /\ UNCHANGED <<client, authArg, env, hasAuth, token, op, pheap, origQuery,
                   origParams, qRef, pRef, limit, batch_size, field, unique,
                   raw, tries0, tries_left, requests, totalRequests, sentToken,
                   resp, qret, built, n_results, seen, pending, out, fetched,
                   pages, honest, dataN>>

\* The head of query / _query, also when it is entered again by a retry:
\* the auth check, the copy of the query, the prepared params.
QueryEnter ==
    /\ \/ pc = "idle" /\ op # "paged_query"
       \/ pc = "q_enter"
    /\ LET argRef  == IF requests > 0 THEN qRef
                      ELSE IF op = "paged_query" THEN pqRef ELSE "caller"
           pargRef == IF requests > 0 THEN pRef ELSE "caller"
           arg == IF requests > 0 THEN retry_query(heap[argRef])
                  ELSE heap[argRef]
           c  == DeepCopy([heap EXCEPT ![argRef] = arg], argRef, "call")
           pp == prepare_params(pheap, pargRef)
       IN IF client = "legacy"
          THEN /\ qRef' = c.ref
               /\ IF check_auth(hasAuth) # "ok"
                  THEN /\ heap' = c.heap
                       /\ Raise(check_auth(hasAuth))
                       /\ UNCHANGED <<pheap, pRef>>
                  ELSE /\ heap' = [c.heap EXCEPT ![c.ref].comment = TRUE]
                       /\ pheap' = pp.heap /\ pRef' = pp.ref
                       /\ pc' = "q_send"
                       /\ UNCHANGED <<fin, err>>
          ELSE IF check_auth(hasAuth) # "ok"
               THEN /\ Raise(check_auth(hasAuth))
                    /\ UNCHANGED <<heap, qRef, pheap, pRef>>
               ELSE /\ heap' = c.heap /\ qRef' = c.ref
                    /\ pheap' = pp.heap /\ pRef' = pp.ref
                    /\ pc' = "q_send"
                    /\ UNCHANGED <<fin, err>>
    /\ UNCHANGED <<firstSent, lastSent, dot>>
    /\ UNCHANGED <<hashable, entity_id, ret, errArgs, probe>>
    /\ UNCHANGED <<client, authArg, env, hasAuth, token, op, origQuery,
                   origParams, pqRef, limit, batch_size, field, unique, raw,
                   tries0, tries_left, requests, totalRequests, sentToken,
                   resp, qret, built, n_results, seen, pending, out, fetched,
                   pages, honest, dataN>>

\* One HTTP request of query / _query and the handling of its outcome: the
\* auth object signs the request (or raises), the server answers, and the
\* client retries, raises or returns a response object.
QueryAttempt ==
    /\ pc = "q_send"
    /\ IF hasAuth /\ AuthCall(token) # "ok"
       THEN /\ Raise(AuthCall(token))
            /\ UNCHANGED <<tries_left, requests, totalRequests, sentToken,
                           resp, qret, errArgs, firstSent, lastSent>>
       ELSE \E o \in IF op = "get_entity" THEN EntityOutcomes(heap[qRef])
                     ELSE ServerOutcomes(heap[qRef], pages, honest, dataN,
                                         Len(fetched), op = "paged_query",
                                         field /\ unique) :
            LET s == client_step(client, heap[qRef], tries_left, o) IN
            /\ errArgs' = IF s.act = "raise" /\ s.err = "RemoteServerError"
                          THEN [code |-> validate_json_response(o.r).code,
                                error |-> validate_json_response(o.r).error]
                          ELSE errArgs
            /\ requests' = requests + 1
            /\ totalRequests' = IF pages < PageCap(honest)
                                THEN totalRequests + 1 ELSE totalRequests
            /\ sentToken' = token
            /\ lastSent' = Sent(heap[qRef], pheap[pRef])
            /\ firstSent' = IF requests = 0
                            THEN Sent(heap[qRef], pheap[pRef]) ELSE firstSent
            /\ resp' = o.r
            /\ IF s.act = "retry"
               THEN /\ tries_left' = tries_left - 1
                    /\ pc' = "q_enter"
                    /\ UNCHANGED <<qret, fin, err>>
               ELSE IF s.act = "raise"
               THEN /\ Raise(s.err)
                    /\ UNCHANGED <<tries_left, qret>>
               ELSE /\ qret' = s.err
                    /\ UNCHANGED tries_left
                    /\ IF op = "paged_query"
                       THEN pc' = "page" /\ UNCHANGED <<fin, err>>
                       ELSE IF op = "get_entity"
                       THEN pc' = "entity" /\ UNCHANGED <<fin, err>>
                       ELSE Return
    /\ UNCHANGED <<hashable, entity_id, ret, probe, dot>>
    /\ UNCHANGED <<client, authArg, env, hasAuth, token, op, heap, pheap,
                   origQuery, origParams, pqRef, qRef, pRef, limit, batch_size,
                   field, unique, raw, tries0, built, n_results, seen, pending,
                   out, fetched, pages, honest, dataN>>

\* The response of a page reaches the body of paged_query's loop: a page
\* that is yielded whole is yielded here; for items and rows the iteration
\* starts (for CSV the header row is yielded first).
ProcessPage ==
    /\ pc = "page"
    /\ pages' = Min(pages + 1, PageCap(honest))
    /\ fetched' = fetched \o resp.rows
    /\ LET mode == page_mode(client, raw, qret, field)
           rc   == returned_count(resp)
           page == [t |-> "page", v |-> rc]
       IN
       CASE mode = "count" ->
              IF rc \in {None, KeyErr}
              THEN /\ Raise(IF rc = None THEN "TypeError" ELSE "KeyError")
                   /\ UNCHANGED <<n_results, out, pending>>
              ELSE /\ n_results' = n_results + rc
                   /\ out' = Append(out, page)
                   /\ pc' = "page_end"
                   /\ UNCHANGED <<pending, fin, err>>
         [] mode = "plain" ->
              /\ out' = Append(out, page)
              /\ pc' = "page_end"
              /\ UNCHANGED <<n_results, pending, fin, err>>
         [] mode = "last" ->
              /\ out' = Append(out, page)
              /\ Return
              /\ UNCHANGED <<n_results, pending>>
         [] mode = "items" ->
              /\ pending' = resp.rows
              /\ pc' = IF resp.rows = <<>> THEN "page_end" ELSE "iter"
              /\ UNCHANGED <<n_results, out, fin, err>>
         [] mode = "csv" ->
              /\ out' = IF yield_header(n_results)
                        THEN Append(out, [t |-> "header", v |-> 0]) ELSE out
              /\ UNCHANGED n_results
              /\ IF client = "legacy" /\ resp.rows = <<>>
                 THEN \* next(csv_reader) raises StopIteration inside the
                      \* generator: it ends the generator, or (PEP 479)
                      \* becomes a RuntimeError
                      /\ UNCHANGED pending
                      /\ \/ Return
                         \/ Raise("RuntimeError")
                 ELSE /\ pending' = csv_rows(client, resp.rows)
                      /\ pc' = IF csv_rows(client, resp.rows) = <<>>
                               THEN "page_end" ELSE "iter"
                      /\ UNCHANGED <<fin, err>>
    /\ UNCHANGED <<firstSent, lastSent, dot>>
    /\ UNCHANGED <<hashable, entity_id, ret, errArgs, probe>>
    /\ UNCHANGED <<client, authArg, env, hasAuth, token, op, heap, pheap,
                   origQuery, origParams, pqRef, qRef, pRef, limit, batch_size,
                   field, unique, raw, tries0, tries_left, requests,
                   totalRequests, sentToken, resp, qret, built, seen, honest,
                   dataN>>

\* One turn of the loop over the items of a field or the rows of a CSV
\* page: skip an item already seen (unique), else count it, yield it and
\* return when the limit is reached.
IterItem ==
    /\ pc = "iter"
    /\ LET item == Head(pending)
           rest == Tail(pending)
           next == IF rest = <<>> THEN "page_end" ELSE "iter"
       IN IF qret = "JSON" /\ unique /\ ~hashable
          THEN \* `item in seen` hashes the item: a dict is unhashable
               /\ Raise("TypeError: unhashable type")
               /\ UNCHANGED <<seen, n_results, out, pending>>
          ELSE IF qret = "JSON" /\ unique /\ item \in seen
          THEN /\ pending' = rest /\ pc' = next
               /\ UNCHANGED <<seen, n_results, out, fin, err>>
          ELSE /\ seen' = IF qret = "JSON" /\ unique
                          THEN seen \cup {item} ELSE seen
               /\ n_results' = n_results + 1
               /\ out' = Append(out, [t |-> IF qret = "CSV" THEN "row"
                                            ELSE "item", v |-> item])
               /\ pending' = rest
               /\ IF limit_reached(limit, n_results + 1)
                  THEN Return
                  ELSE pc' = next /\ UNCHANGED <<fin, err>>
    /\ UNCHANGED <<firstSent, lastSent, dot>>
    /\ UNCHANGED <<hashable, entity_id, ret, errArgs, probe>>
    /\ UNCHANGED <<client, authArg, env, hasAuth, token, op, heap, pheap,
                   origQuery, origParams, pqRef, qRef, pRef, limit, batch_size,
                   field, unique, raw, tries0, tries_left, requests,
                   totalRequests, sentToken, resp, qret, built, fetched, pages,
                   honest, dataN>>

\* The end of the loop body: the termination tests, then the cursor of the
\* response is written into the query for the next page request.
PageEnd ==
    /\ pc = "page_end"
    /\ LET d == page_end(client, resp, n_results, limit) IN
       CASE d = "none_total" ->
              \* None <= n_results: a TypeError, or True under Python 2
              /\ \/ Raise("TypeError")
                 \/ Return
              /\ UNCHANGED <<heap, requests, tries_left>>
         [] d = "key_error" ->
              /\ Raise("KeyError")
              /\ UNCHANGED <<heap, requests, tries_left>>
         [] d = "return" ->
              /\ Return
              /\ UNCHANGED <<heap, requests, tries_left>>
         [] d = "advance" ->
              /\ \/ pages < PageCap(honest)
                 \/ ~honest /\ page_mode(client, raw, qret, field) = "items"
              /\ heap' = [heap EXCEPT
                            ![pqRef] = advance_cursor(heap[pqRef], resp)]
              /\ requests' = 0
              /\ tries_left' = page_budget(tries_left)
              /\ pc' = "q_enter"
              /\ UNCHANGED <<fin, err>>
    /\ UNCHANGED <<firstSent, lastSent, dot>>
    /\ UNCHANGED <<hashable, entity_id, ret, errArgs, probe>>
    /\ UNCHANGED <<client, authArg, env, hasAuth, token, op, pheap, origQuery,
                   origParams, pqRef, qRef, pRef, limit, batch_size, field,
                   unique, raw, tries0, totalRequests, sentToken, resp, qret,
                   built, n_results, seen, pending, out, fetched, pages,
                   honest, dataN>>

\* The consumer stops pulling from the generator after a yield: the
\* generator's frame (its locals) is discarded. What was yielded, and the
\* objects of the caller, remain.
Abandon ==
    /\ pc \in {"iter", "page_end"}
    /\ out # <<>>
    /\ fin' = "abandoned" /\ pc' = "done"
    /\ resp' = NoResp /\ qret' = "none" /\ pending' = <<>> /\ seen' = {}
    /\ n_results' = 0 /\ tries_left' = 0 /\ requests' = 0
    /\ UNCHANGED <<firstSent, lastSent, dot>>
    /\ UNCHANGED <<hashable, entity_id, ret, errArgs, probe>>
    /\ UNCHANGED <<client, authArg, env, hasAuth, token, op, heap, pheap,
                   origQuery, origParams, pqRef, qRef, pRef, limit, batch_size,
                   field, unique, raw, tries0, totalRequests, sentToken, built,
                   err, out, fetched, pages, honest, dataN>>

\* The rest of get_entity, once query has returned the response: look the
\* entity up in entity_details and return it, or None.
GetEntity ==
    /\ pc = "entity"
    /\ ret' = get_entity(resp, entity_id)
    /\ Return
    /\ UNCHANGED <<firstSent, lastSent, dot>>
    /\ UNCHANGED <<hashable, entity_id, errArgs, probe>>
    /\ UNCHANGED <<client, authArg, env, hasAuth, token, op, heap, pheap,
                   origQuery, origParams, pqRef, qRef, pRef, limit, batch_size,
                   field, unique, raw, tries0, tries_left, requests,
                   totalRequests, sentToken, resp, qret, built, n_results,
                   seen, pending, out, fetched, pages, honest, dataN>>

Next ==
    \/ Construct
    \/ EnvChange
    \/ PagedStart
    \/ QueryEnter
    \/ QueryAttempt
    \/ ProcessPage
    \/ IterItem
    \/ PageEnd
    \/ Abandon
    \/ GetEntity

\* ------------------------------------------------------------ initial states
Envs == [RF_TOKEN : {"unset", "tokA"}, RECFUT_TOKEN : {"unset", "tokB"}]

NoEnv == [RF_TOKEN |-> "unset", RECFUT_TOKEN |-> "unset"]

\* The query get_status builds.
StatusQuery == MkQuery("status", "none", None, None, "json", FALSE)

\* Nothing returned by get_entity, no RemoteServerError raised, no property
\* of a response read.
NoRet == [kind |-> "none", id |-> "none", entry |-> "none"]

NoErrArgs == [code |-> None, error |-> "none"]

NoProbe == [returned_count |-> None, total_count |-> None,
            next_page_start |-> None, has_more_results |-> "none"]

\* No request sent yet.
NoSent == [sent |-> FALSE, body |-> StatusQuery,
           params |-> [isNone |-> TRUE, app_id |-> FALSE]]

\* No dot_index call.
NoDot == [called |-> FALSE, data |-> [k |-> "none"], a |-> "none",
          b |-> "none", whole |-> [k |-> "none"], first |-> [k |-> "none"],
          second |-> [k |-> "none"]]

\* The state before the constructor runs, for one choice of the client, its
\* auth argument, the environment, the operation and its arguments.
Start(c, a, e, o, q, p, lim, bs, fld, uniq, rw, t0, hon, N) ==
    /\ client = c /\ authArg = a /\ env = e /\ op = o
    /\ hasAuth = FALSE /\ token = "None" /\ built = "no"
    /\ heap = [r \in QRefs |-> q]
    /\ pheap = [r \in PRefs |-> p]
    /\ origQuery = q /\ origParams = p
    /\ pqRef = "caller" /\ qRef = "caller" /\ pRef = "caller"
    /\ limit = lim /\ batch_size = bs /\ field = fld /\ unique = uniq
    /\ raw = rw
    /\ pc = "ctor" /\ tries0 = t0 /\ tries_left = t0
    /\ requests = 0 /\ totalRequests = 0 /\ sentToken = "None"
    /\ resp = NoResp /\ qret = "none" /\ fin = "running" /\ err = "none"
    /\ n_results = 0 /\ seen = {} /\ pending = <<>> /\ out = <<>>
    /\ fetched = <<>> /\ pages = 0
    /\ honest = hon /\ dataN = N
    /\ ret = NoRet /\ errArgs = NoErrArgs /\ probe = NoProbe
    /\ firstSent = NoSent /\ lastSent = NoSent /\ dot = NoDot

NoParams == MkParams(TRUE, FALSE)
SomeParams == MkParams(FALSE, FALSE)

\* Clients built with every auth argument and environment, then one call.
AuthCalls ==
    { <<"raw", "query", MkQuery("entity", "none", None, None, "json", FALSE)>>,
      <<"raw", "get_status", StatusQuery>>,
      <<"raw", "paged_query", MkQuery("entity", "none", None, None, "json", FALSE)>>,
      <<"raw", "paged_query", MkQuery("apa", "none", None, None, "json", FALSE)>>,
      <<"raw", "paged_query", MkQuery("entity", "none", None, None, "json", TRUE)>>,
      <<"legacy", "query", MkQuery("entity", "none", None, None, "json", FALSE)>>,
      <<"legacy", "get_status", StatusQuery>>,
      <<"legacy", "paged_query", MkQuery("entity", "none", None, None, "json", FALSE)>>,
      <<"legacy", "paged_query", MkQuery("apa", "none", None, None, "json", FALSE)>>,
      <<"connect", "connect_query", MkQuery("route", "none", None, None, "json", FALSE)>> }

InitAuth ==
    \E x \in AuthCalls, a \in {"none", "auto", "token"}, e \in Envs :
        /\ (a # "auto" => e = NoEnv)
        /\ Start(x[1], a, e, x[2], x[3], NoParams, None, 1, FALSE, FALSE,
                 FALSE, DEFAULT_RETRIES, TRUE, 1)
        /\ hashable = TRUE /\ entity_id = "none"

\* Single query calls with every retry budget, against both servers.
QueryCallQueries ==
    { MkQuery(k, st, ps, None, f, FALSE) :
        k \in {"entity", "apa"}, st \in {"none", "scan"}, ps \in {None, 1},
        f \in {"json", "csv", "xml"} }

InitQuery ==
    \/ \E c \in {"raw", "legacy"}, q \in QueryCallQueries,
          p \in {NoParams, SomeParams}, t0 \in 0..MaxTries, hon \in BOOLEAN :
          /\ (c = "legacy" => t0 = 0)
          /\ Start(c, "token", NoEnv, "query", q, p, None, 1, FALSE, FALSE,
                   FALSE, t0, hon, 2)
          /\ hashable = TRUE /\ entity_id = "none"
    \/ \E p \in {NoParams, SomeParams}, t0 \in 0..MaxTries :
          /\ Start("connect", "token", NoEnv, "connect_query",
                   MkQuery("route", "none", None, None, "json", FALSE), p,
                   None, 1, FALSE, FALSE, FALSE, t0, TRUE, 2)
          /\ hashable = TRUE /\ entity_id = "none"

\* Paging runs: every output format and mode, limit and batch size.
PagedModes ==
    { <<"json", FALSE, FALSE, FALSE>>, <<"json", TRUE, FALSE, FALSE>>,
      <<"json", TRUE, TRUE, FALSE>>, <<"json", FALSE, FALSE, TRUE>>,
      <<"csv", FALSE, FALSE, FALSE>>, <<"csv", FALSE, FALSE, TRUE>>,
      <<"xml", FALSE, FALSE, FALSE>>, <<"xml", FALSE, FALSE, TRUE>> }

InitPaged ==
    \E c \in {"raw", "legacy"}, m \in PagedModes,
       lim \in {None} \cup 1..MaxLimit, bs \in 1..MaxBatch,
       k \in {"entity", "apa"}, cnt \in BOOLEAN,
       bl \in {None, MaxLimit + 1}, hon \in BOOLEAN, N \in 0..MaxTotal,
       h \in BOOLEAN :
        /\ (c = "legacy" => ~m[4])
        /\ (~h => m[2] /\ m[3])
        /\ hashable = h /\ entity_id = "none"
        /\ (~hon => N = 0 /\ bl = None /\ bs = MaxBatch)
        /\ ((k = "apa" \/ cnt) => m[1] = "json" /\ ~m[2] /\ hon /\ N = 0
                                   /\ bl = None)
        /\ Start(c, "token", NoEnv, "paged_query",
                 MkQuery(k, "none", None, bl, m[1], cnt), NoParams, lim, bs,
                 m[2], m[3], m[4], DEFAULT_RETRIES, hon, N)

\* get_entity calls, with and without auth.
InitEntity ==
    \E a \in {"none", "token"}, id \in EntityIds :
        /\ Start("raw", a, NoEnv, "get_entity",
                 MkQuery("entity", "none", None, None, "json", FALSE),
                 NoParams, None, 1, FALSE, FALSE, FALSE, DEFAULT_RETRIES,
                 FALSE, 0)
        /\ hashable = TRUE /\ entity_id = id

Init == InitAuth \/ InitQuery \/ InitPaged \/ InitEntity

Spec == Init /\ [][Next]_vars

\* Paging runs against the honest server only.
InitHonest == InitPaged /\ honest

NextPaged ==
    \/ Construct
    \/ PagedStart
    \/ QueryEnter
    \/ QueryAttempt
    \/ ProcessPage
    \/ IterItem
    \/ PageEnd
    \/ Abandon

SpecHonest == InitHonest /\ [][NextPaged]_vars

\* Paging runs that are driven to their end: the consumer keeps pulling and
\* every HTTP request completes (with a response or a timeout), so a run
\* that can take a step takes one. The runs are those against the honest
\* server, and those against a server that may answer anything in which
\* the items of a field are iterated without a limit.
InitDriven == InitPaged /\ (honest \/ (field /\ limit = None /\ ~unique))

SpecDriven == InitDriven /\ [][NextPaged]_vars /\ WF_vars(NextPaged)

\* ------------------------------------------------- reading a response
\* Reading the four properties of a response object.
Probe ==
    /\ pc = "probe"
    /\ probe' = [returned_count |-> returned_count(resp),
                 total_count |-> total_count(resp),
                 next_page_start |-> next_page_start(resp),
                 has_more_results |-> has_more_results(resp)]
    /\ Return
    /\ UNCHANGED <<firstSent, lastSent, dot>>
    /\ UNCHANGED <<hashable, entity_id, ret, errArgs>>
    /\ UNCHANGED <<client, authArg, env, hasAuth, token, op, heap, pheap,
                   origQuery, origParams, pqRef, qRef, pRef, limit, batch_size,
                   field, unique, raw, tries0, tries_left, requests,
                   totalRequests, sentToken, resp, qret, built, n_results,
                   seen, pending, out, fetched, pages, honest, dataN>>

\* The counts and cursors a response may carry: absent, or a number.
Counts == {None} \cup 0..MaxCount

Cursors == {None} \cup 1..MaxCount

\* The JSON responses whose properties are read: every combination of the
\* three headers, a counts object with or without returned and total, a
\* result object with or without count and total_count, and a cursor in
\* the body.
ProbeResponses ==
    { [Resp(200, "json", TRUE, FALSE, FALSE, <<>>, hr, ht, hn) EXCEPT
         !.counts = c.on, !.cReturned = c.a, !.cTotal = c.b,
         !.term = t.on, !.tCount = t.a, !.tTotal = t.b, !.bNext = bn] :
        hr \in Counts, ht \in Counts, hn \in Cursors, bn \in Cursors,
        c \in {[on |-> FALSE, a |-> None, b |-> None]}
               \cup [on : {TRUE}, a : Counts, b : Counts],
        t \in {[on |-> FALSE, a |-> None, b |-> None]}
               \cup [on : {TRUE}, a : Counts, b : Counts] }

\* A JSONQueryResponse in hand, as query returned it.
InitResp ==
    \E r \in ProbeResponses :
        /\ client = "raw" /\ authArg = "token" /\ env = NoEnv /\ op = "probe"
        /\ hasAuth = TRUE /\ token = "tokA" /\ built = "yes"
        /\ heap = [x \in QRefs |-> StatusQuery]
        /\ pheap = [x \in PRefs |-> NoParams]
        /\ origQuery = StatusQuery /\ origParams = NoParams
        /\ pqRef = "caller" /\ qRef = "call" /\ pRef = "call"
        /\ limit = None /\ batch_size = 1 /\ field = FALSE /\ unique = FALSE
        /\ raw = FALSE
        /\ pc = "probe" /\ tries0 = 0 /\ tries_left = 0
        /\ requests = 1 /\ totalRequests = 1 /\ sentToken = "tokA"
        /\ resp = r /\ qret = "JSON" /\ fin = "running" /\ err = "none"
        /\ n_results = 0 /\ seen = {} /\ pending = <<>> /\ out = <<>>
        /\ fetched = <<>> /\ pages = 0
        /\ honest = FALSE /\ dataN = 0
        /\ hashable = TRUE /\ entity_id = "none"
        /\ ret = NoRet /\ errArgs = NoErrArgs /\ probe = NoProbe
        /\ firstSent = NoSent /\ lastSent = NoSent /\ dot = NoDot

NextResp == Probe

SpecResp == InitResp /\ [][NextResp]_vars

\* ----------------------------------------------------------- dot_index
MaxItems == 2
MaxDepth == 2

\* The keys of the mappings, and of the paths resolved in them.
Keys == {"apa", "bepa"}

\* Python values: a string, a dict (its keys are strings), a list, the
\* view dict.items() returns (its key/value pairs), and a raised error.
PyStr(x) == [k |-> "str", s |-> x]
PyDict(m) == [k |-> "dict", d |-> m]
PyList(l) == [k |-> "list", l |-> l]
DictItems(m) == [k |-> "items", i |-> {<<key, m[key]>> : key \in DOMAIN m}]
PyRaise(e) == [k |-> "error", e |-> e]

\* x[key] for a string key: the entry of a dict (KeyError without one); a
\* TypeError for a list, a string, an items view and a key/value tuple.
getitem(x, key) ==
    IF x.k = "dict"
    THEN (IF key \in DOMAIN x.d THEN x.d[key] ELSE PyRaise("KeyError"))
    ELSE PyRaise("TypeError")

RECURSIVE dot_walk(_, _)
\* The loop of dot_index over the keys of the index: a list is indexed
\* element by element (the first failing element raises), anything else
\* is indexed itself.
dot_walk(keys, data) ==
    IF keys = <<>> \/ data.k = "error" THEN data
    ELSE LET key == Head(keys)
             got == [i \in 1..Len(data.l) |-> getitem(data.l[i], key)]
             bad == {i \in 1..Len(data.l) : got[i].k = "error"}
             nxt == IF data.k # "list" THEN getitem(data, key)
                    ELSE IF bad = {} THEN PyList(got)
                    ELSE got[CHOOSE i \in bad : \A j \in bad : i <= j]
         IN dot_walk(Tail(keys), nxt)

\* dot_index(index, data), the index given as the sequence of its
\* dot-separated keys: a list is returned as it is, a dict as its items(),
\* anything else as a one-element list.
dot_index(index, data) ==
    LET r == dot_walk(index, data) IN
    IF r.k \in {"error", "list"} THEN r
    ELSE IF r.k = "dict" THEN DictItems(r.d)
    ELSE PyList(<<r>>)

RECURSIVE DotValues(_)
\* The values nested at most n deep: a string, the non-empty dicts over
\* Keys and the lists of at most MaxItems elements of the values below.
DotValues(n) ==
    IF n = 0 THEN {PyStr("depa")}
    ELSE LET V == DotValues(n - 1) IN
         {PyStr("depa")}
         \cup {PyDict(m) : m \in UNION {[S -> V] : S \in SUBSET Keys \ {{}}}}
         \cup {PyList(l) : l \in UNION {[1..n2 -> V] : n2 \in 0..MaxItems}}

\* The nested mappings dot_index is called on.
DotData ==
    {PyDict(m) : m \in UNION {[S -> DotValues(MaxDepth)] :
                                S \in SUBSET Keys \ {{}}}}

\* dot_index("a.b", d), and dot_index("a", d) followed by dot_index("b", r)
\* on its result r (when the first call raises there is no second one).
DotIndex ==
    /\ pc = "dot"
    /\ LET whole == dot_index(<<dot.a, dot.b>>, dot.data)
           first == dot_index(<<dot.a>>, dot.data)
           second == IF first.k = "error" THEN first
                     ELSE dot_index(<<dot.b>>, first)
       IN dot' = [dot EXCEPT !.called = TRUE, !.whole = whole,
                             !.first = first, !.second = second]
    /\ Return
    /\ UNCHANGED <<firstSent, lastSent, probe>>
    /\ UNCHANGED <<hashable, entity_id, ret, errArgs>>
    /\ UNCHANGED <<client, authArg, env, hasAuth, token, op, heap, pheap,
                   origQuery, origParams, pqRef, qRef, pRef, limit, batch_size,
                   field, unique, raw, tries0, tries_left, requests,
                   totalRequests, sentToken, resp, qret, built, n_results,
                   seen, pending, out, fetched, pages, honest, dataN>>

\* A nested mapping and two keys in hand; no client is involved.
InitDot ==
    \E d \in DotData, a \in Keys, b \in Keys :
        /\ client = "raw" /\ authArg = "none" /\ env = NoEnv
        /\ op = "dot_index"
        /\ hasAuth = FALSE /\ token = "None" /\ built = "no"
        /\ heap = [x \in QRefs |-> StatusQuery]
        /\ pheap = [x \in PRefs |-> NoParams]
        /\ origQuery = StatusQuery /\ origParams = NoParams
        /\ pqRef = "caller" /\ qRef = "caller" /\ pRef = "caller"
        /\ limit = None /\ batch_size = 1 /\ field = FALSE /\ unique = FALSE
        /\ raw = FALSE
        /\ pc = "dot" /\ tries0 = 0 /\ tries_left = 0
        /\ requests = 0 /\ totalRequests = 0 /\ sentToken = "None"
        /\ resp = NoResp /\ qret = "none" /\ fin = "running" /\ err = "none"
        /\ n_results = 0 /\ seen = {} /\ pending = <<>> /\ out = <<>>
        /\ fetched = <<>> /\ pages = 0
        /\ honest = FALSE /\ dataN = 0
        /\ hashable = TRUE /\ entity_id = "none"
        /\ ret = NoRet /\ errArgs = NoErrArgs /\ probe = NoProbe
        /\ firstSent = NoSent /\ lastSent = NoSent
        /\ dot = [NoDot EXCEPT !.data = d, !.a = a, !.b = b]

NextDot == DotIndex

SpecDot == InitDot /\ [][NextDot]_vars

\* =================================================================== claims
\* The data items yielded so far: the items of a field and the CSV rows.
DataYielded == SelectSeqBy(out, "item") \o SelectSeqBy(out, "row")

RECURSIVE SumCounts(_)
\* The sum of returned_count over the yielded pages (an absent count adds 0).
SumCounts(s) ==
    IF s = <<>> THEN 0
    ELSE (IF Head(s).t = "page" /\ Head(s).v # None THEN Head(s).v ELSE 0)
         + SumCounts(Tail(s))

\* C1: in a paged_query run with a non-null limit, the data items yielded
\* (items of the field, CSV rows) are at most limit, and the returned_count
\* of the pages yielded whole (raw, field-less JSON, XML) sum to at most
\* limit.
C1_LimitNeverExceeded ==
    (op = "paged_query" /\ limit # None) =>
        /\ Len(DataYielded) <= limit
        /\ SumCounts(out) <= limit

\* C2: a RawApiClient.query call started with budget n issues at most n+1
\* HTTP requests; every retry (502, 503 or read timeout) takes one from the
\* same budget, which never goes below 0.
C2_RetryBudget ==
    (client = "raw" /\ fin # "abandoned") =>
        /\ tries_left >= 0
        /\ requests <= tries0 + 1
        /\ (pc \in {"q_enter", "q_send"} => requests = tries0 - tries_left)
        /\ (pc \in {"page", "iter", "page_end"} \/ (pc = "done" /\ requests > 0)
              => requests = tries0 - tries_left + 1)

C2_Witness ==
    /\ client = "raw" /\ op = "query" /\ pc = "done"
    /\ tries0 = DEFAULT_RETRIES /\ requests = DEFAULT_RETRIES + 1
    /\ fin = "returned"

Transient(r) == r.ctype = "timeout" \/ r.status \in {502, 503}

\* C3: when a request of RawApiClient.query made with budget 0 ends in a
\* 502, a 503 or a read timeout, the call raises: the ReadTimeout for a
\* timeout, an HTTP error carrying the response for a 502/503. It does not
\* return and does not retry.
C3_ExhaustedFailureRaised ==
    [][ (client = "raw" /\ pc = "q_send" /\ tries_left = 0
         /\ requests' = requests + 1 /\ Transient(resp'))
        => /\ pc' = "done" /\ fin' = "raised"
           /\ (resp'.ctype = "timeout" => err' = "ReadTimeout")
           /\ (resp'.status \in {502, 503} => err' \in {"HTTPError", "HttpError"})
      ]_vars

C3_Witness ==
    /\ client = "raw" /\ op = "query" /\ pc = "done" /\ fin = "raised"
    /\ tries0 = DEFAULT_RETRIES /\ tries_left = 0
    /\ requests = DEFAULT_RETRIES + 1
    /\ resp.status = 503 /\ err = "HttpError"

\* C4: every HTTP 401 response, whatever its content type and body, ends
\* the query with AuthenticationError and is not retried.
C4_Every401IsAuthenticationError ==
    (client = "raw" /\ resp.status = 401) =>
        /\ pc = "done" /\ fin = "raised"
        /\ err = "AuthenticationError"

\* C5: on a read timeout RawApiClient.query raises at once, whatever the
\* budget, when the query's kind body has searchtype scan and a page_start;
\* otherwise it retries while the budget is positive, taking one from it,
\* and raises the timeout when the budget is 0, as for a 502/503.
C5_ScanTimeoutNotRetried ==
    [][ (client = "raw" /\ pc = "q_send" /\ requests' = requests + 1
         /\ Transient(resp'))
        => LET q == heap[qRef]
               scanCursor == /\ q.key \in RecognizedKinds
                             /\ q.searchtype = "scan"
                             /\ q.page_start # None
           IN IF resp'.ctype = "timeout" /\ scanCursor
              THEN /\ pc' = "done" /\ fin' = "raised" /\ err' = "ReadTimeout"
                   /\ tries_left' = tries_left
              ELSE IF tries_left > 0
              THEN /\ pc' = "q_enter" /\ fin' = "running"
                   /\ tries_left' = tries_left - 1
              ELSE /\ pc' = "done" /\ fin' = "raised"
      ]_vars

C5_Witness ==
    /\ client = "raw" /\ pc = "done" /\ fin = "raised" /\ err = "ReadTimeout"
    /\ tries_left > 0 /\ requests = 1
    /\ heap[qRef].searchtype = "scan" /\ heap[qRef].page_start # None

\* C6: RawApiClient.query and RawApiClient.paged_query leave the caller's
\* query and params as they were passed, through retries and pages, also
\* when the generator is abandoned.
C6_CallerObjectsUnchanged ==
    client = "raw" => /\ heap["caller"] = origQuery
                      /\ pheap["caller"] = origParams

C6_Witness ==
    /\ client = "raw" /\ op = "paged_query" /\ pc = "done"
    /\ fin \in {"returned", "abandoned"}
    /\ pages >= 2
    /\ heap[pqRef].page_start # origQuery.page_start
    /\ heap[pqRef].limit # origQuery.limit
    /\ pheap[pRef].app_id

\* C7 as stated: with auth=None the constructor succeeds, no HTTP request
\* is ever issued, and every operation ends with MissingAuthError.
C7_NoAuthAlwaysMissingAuthError ==
    authArg = "none" =>
        /\ built # "failed"
        /\ totalRequests = 0
        /\ (pc = "done" => fin = "raised" /\ err = "MissingAuthError")

Pageable(c, q) ==
    /\ q.key \in RecognizedKinds
    /\ (c = "raw" => ~q.count)

\* C7 amended: with auth=None the constructor succeeds, no HTTP request is
\* ever issued, and every operation ends with an error: MissingAuthError,
\* except that paged_query on a query it rejects (no recognized kind key;
\* for RawApiClient also an aggregate query) ends with that rejection
\* (InvalidRFQError; UnknownQueryTypeError in the older ApiClient).
C7_NoAuthRaisesBeforeRequest ==
    authArg = "none" =>
        /\ built # "failed"
        /\ totalRequests = 0
        /\ (pc = "done" =>
              /\ fin = "raised"
              /\ IF op = "paged_query" /\ ~Pageable(client, origQuery)
                 THEN err = (IF client = "raw" THEN "InvalidRFQError"
                             ELSE "UnknownQueryTypeError")
                 ELSE err = "MissingAuthError")

C7_Witness ==
    /\ authArg = "none" /\ client = "raw" /\ op = "paged_query"
    /\ pc = "done" /\ err = "MissingAuthError" /\ totalRequests = 0

TokenInEnv(e) ==
    IF e.RF_TOKEN # "unset" THEN e.RF_TOKEN
    ELSE IF e.RECFUT_TOKEN # "unset" THEN e.RECFUT_TOKEN
    ELSE "None"

\* C8: with auth 'auto' the constructor never fails; MissingAuthError is
\* raised only by a request made while the environment holds no token; a
\* request carries the token the environment holds when it is made.
C8_TokenResolvedAtFirstUse ==
    authArg = "auto" =>
        /\ built # "failed"
        /\ (err = "MissingAuthError" => TokenInEnv(env) = "None")
        /\ (totalRequests > 0 => sentToken = TokenInEnv(env))

\* C9: RawApiClient.paged_query on a query without a recognized kind key,
\* or with count in its output mapping, raises InvalidRFQError on the
\* first pull: no HTTP request is issued and nothing is yielded.
C9_UnpageableRejected ==
    (client = "raw" /\ op = "paged_query" /\ built = "yes"
     /\ (origQuery.key \notin RecognizedKinds \/ origQuery.count)) =>
        /\ pc \in {"idle", "done"}
        /\ totalRequests = 0 /\ out = <<>>
        /\ (pc = "done" => fin = "raised" /\ err = "InvalidRFQError")

C9_Witness ==
    /\ client = "raw" /\ op = "paged_query" /\ hasAuth
    /\ origQuery.key \in RecognizedKinds /\ origQuery.count
    /\ pc = "done" /\ err = "InvalidRFQError" /\ totalRequests = 0

\* C10: for CSV responses the header row is yielded exactly once, as the
\* first value; every other value is a data row; the data rows of the
\* fetched pages are yielded in order, none skipped, until the limit.
C10_CsvHeaderOnceRowsAll ==
    (op = "paged_query" /\ ~raw /\ origQuery.format = "csv" /\ out # <<>>) =>
        /\ out[1].t = "header"
        /\ \A i \in 2..Len(out) : out[i].t = "row"
        /\ IsPrefix(Values(SelectSeqBy(out, "row")), fetched)
        /\ (pc = "page_end" => Values(SelectSeqBy(out, "row")) = fetched)

\* The CSV values a run yields when it ends after k rows of the honest
\* server's data: the header, then rows 1..k.
HeaderThenRows(k) ==
    <<[t |-> "header", v |-> 0]>> \o [i \in 1..k |-> [t |-> "row", v |-> i]]

\* The pages of size pl that hold the first k rows.
PagesHolding(k, pl) == (k + pl - 1) \div pl

\* C11: RawApiClient.paged_query with CSV output and a limit L, against a
\* server holding more than L rows: at most L rows are ever yielded; the
\* run ends as soon as the L-th row is yielded; a run that ends normally
\* has yielded the header and then exactly rows 1..L, and has requested
\* only the pages that hold them.
C11_CsvLimitExactRows ==
    (client = "raw" /\ op = "paged_query" /\ ~raw /\ origQuery.format = "csv"
     /\ limit # None /\ dataN > limit) =>
        /\ Len(SelectSeqBy(out, "row")) <= limit
        /\ (Len(SelectSeqBy(out, "row")) = limit =>
              pc = "done" /\ fin = "returned")
        /\ (pc = "done" /\ fin = "returned" =>
              /\ out = HeaderThenRows(limit)
              /\ pages = PagesHolding(limit, Min(batch_size, limit)))

C11_Witness ==
    /\ client = "raw" /\ op = "paged_query" /\ ~raw
    /\ origQuery.format = "csv" /\ limit = MaxLimit /\ batch_size = 2
    /\ dataN > limit /\ pc = "done" /\ fin = "returned"
    /\ out = HeaderThenRows(MaxLimit) /\ pages = PagesHolding(MaxLimit, 2)

\* A paging run over responses that are neither JSON nor CSV.
OtherFormatRun ==
    op = "paged_query" /\ ~raw /\ origQuery.format = "xml" /\ pages >= 1

C13_XmlPagesSumToLimit ==
    (client = "raw" /\ op = "paged_query" /\ origQuery.format = "xml"
     /\ limit # None /\ limit % batch_size = 0 /\ dataN >= limit) =>
        /\ \A i \in 1..Len(out) : out[i] = [t |-> "page", v |-> batch_size]
        /\ (fin # "abandoned" => Len(out) = pages)
        /\ (pc = "done" /\ fin = "returned" =>
              /\ SumCounts(out) = limit
              /\ Len(out) = limit \div batch_size)

C13_Witness ==
    /\ client = "raw" /\ op = "paged_query" /\ origQuery.format = "xml"
    /\ ~raw /\ limit = 2 /\ batch_size = 1 /\ dataN > limit
    /\ pc = "done" /\ fin = "returned"
    /\ Len(out) = 2 /\ SumCounts(out) = 2

\* C14: with unique=True and a field, no two equal items are yielded in one
\* run, whatever pages they arrive in, and an item equal to one already
\* yielded is skipped (the run does not fail on it), for every kind of item
\* the field resolves to, mappings included.
C14_UniqueItemsOnce ==
    (op = "paged_query" /\ field /\ unique) =>
        /\ \A i, j \in 1..Len(out) : i # j => out[i].v # out[j].v
        /\ ~(fin = "raised" /\ err = "TypeError: unhashable type")

\* C15 as stated: every paged_query run that is driven on ends, and once
\* it has ended it yields nothing more.
C15_EveryRunTerminates ==
    /\ <>(pc = "done")
    /\ [][pc = "done" => pc' = "done" /\ out' = out]_vars

\* C15 amended: every paged_query run that is driven on against a server
\* that pages a finite data set ends, for every limit (None included),
\* batch_size, field and unique setting, and once it has ended it yields
\* nothing more.
C15_FiniteDataRunTerminates ==
    /\ honest ~> (pc = "done")
    /\ [][pc = "done" => pc' = "done" /\ out' = out]_vars

C15_Witness ==
    /\ op = "paged_query" /\ honest /\ limit = None /\ field
    /\ dataN = MaxTotal /\ batch_size = 1
    /\ pc = "done" /\ fin = "returned" /\ pages = MaxTotal
    /\ Len(out) = MaxTotal

\* The properties of a response have been read.
Probed == op = "probe" /\ pc = "done"

\* C16 as stated, for the responses whose counts are present or absent
\* (reading them does not raise): has_more_results is False when
\* next_page_start is absent, whatever the counts; False when
\* returned_count equals total_count; True in every other case.
C16_HasMoreResults ==
    (Probed /\ probe.returned_count # KeyErr /\ probe.total_count # KeyErr) =>
        probe.has_more_results =
            (IF probe.next_page_start = None THEN "False"
             ELSE IF probe.returned_count = probe.total_count THEN "False"
             ELSE "True")

\* C16 amended: has_more_results is False when next_page_start is absent,
\* whatever the counts; with a cursor it is False when returned_count is
\* present and equals total_count, and True when returned_count is absent
\* (also when total_count is absent too) or differs from total_count; when
\* reading a count it needs raises, it raises.
C16_HasMoreResultsGuarded ==
    Probed =>
        LET rc == probe.returned_count
            tc == probe.total_count
        IN probe.has_more_results =
            (IF probe.next_page_start = None THEN "False"
             ELSE IF rc = KeyErr THEN "KeyError"
             ELSE IF rc = None THEN "True"
             ELSE IF tc = KeyErr THEN "KeyError"
             ELSE IF rc = tc THEN "False"
             ELSE "True")

C16_Witness ==
    /\ Probed /\ probe.next_page_start # None
    /\ probe.returned_count = None /\ probe.total_count = None
    /\ probe.has_more_results = "True"

\* C17 as stated: next_page_start is the cursor embedded in the JSON body
\* when there is one, else the X-RF-NEXT-PAGE-START header, else None.
C17_NextPageStartBodyFirst ==
    Probed =>
        probe.next_page_start =
            (IF resp.bNext # None THEN resp.bNext ELSE resp.hNext)

\* C17 amended: next_page_start is the X-RF-NEXT-PAGE-START header, and
\* None when the response has no such header; a cursor embedded in the
\* body is not read.
C17_NextPageStartHeaderOnly ==
    Probed => probe.next_page_start = resp.hNext

C17_Witness ==
    /\ Probed /\ resp.bNext # None /\ resp.hNext # None
    /\ resp.bNext # resp.hNext /\ probe.next_page_start = resp.hNext

\* The first of three sources that supplies a value, else None.
FirstSupplied(a, b, c) ==
    IF a # None THEN a ELSE IF b # None THEN b ELSE c

\* C18: returned_count is the first value supplied among the
\* X-RF-RETURNED-COUNT header, counts.returned and result.count, and
\* total_count the first among the X-RF-TOTAL-COUNT header, counts.total
\* and result.total_count; each is None when no source supplies it.
C18_CountsPriorityOrder ==
    Probed =>
        /\ probe.returned_count =
              FirstSupplied(resp.hReturned, resp.cReturned, resp.tCount)
        /\ probe.total_count =
              FirstSupplied(resp.hTotal, resp.cTotal, resp.tTotal)

\* C19: when query has returned the response to get_entity(entity_id),
\* get_entity returns and raises nothing: None when the body has no
\* entity_details or entity_details has no entry for entity_id, else the
\* Entity built from the entry under entity_id, with id = entity_id.
C19_GetEntityNoneWhenMissing ==
    (op = "get_entity" /\ pc = "done" /\ qret = "JSON") =>
        /\ fin = "returned" /\ err = "none"
        /\ IF resp.hasDetails /\ entity_id \in resp.details
           THEN ret = [kind |-> "Entity", id |-> entity_id,
                       entry |-> entity_id]
           ELSE ret.kind = "None"

C19_Witness ==
    /\ op = "get_entity" /\ pc = "done" /\ fin = "returned"
    /\ resp.hasDetails /\ resp.details # {} /\ entity_id \notin resp.details
    /\ ret.kind = "None"

\* C20: when the response to a JSON query of RawApiClient.query has HTTP
\* status 200 and a decoded body with status FAILURE, the call raises
\* RemoteServerError carrying the body's code and error message; it
\* returns no response object and does not retry, whatever the budget.
C20_FailureBodyRaises ==
    [][ (client = "raw" /\ pc = "q_send" /\ requests' = requests + 1
         /\ heap[qRef].format = "json"
         /\ resp'.status = 200 /\ resp'.jsonOk /\ resp'.failure)
        => /\ pc' = "done" /\ fin' = "raised"
           /\ err' = "RemoteServerError"
           /\ errArgs'.code = resp'.code
           /\ errArgs'.error = (IF resp'.errMsg THEN "server message"
                                ELSE "NONE")
           /\ qret' = qret /\ tries_left' = tries_left
      ]_vars

C20_Witness ==
    /\ client = "raw" /\ op = "query" /\ pc = "done" /\ fin = "raised"
    /\ err = "RemoteServerError" /\ tries_left = MaxTries /\ requests = 1
    /\ resp.failure /\ resp.code = 500 /\ errArgs.code = 500
    /\ errArgs.error = "server message" /\ qret = "none"

\* C21: when a response with HTTP status 200 to a query that expects JSON
\* has a body that does not decode as JSON, the query call of every client
\* ends by raising JsonParseError, and no response object is returned.
C21_UndecodableJsonIsJsonParseError ==
    (/\ requests >= 1 /\ expect_json(heap[qRef])
     /\ resp.status = 200 /\ ~resp.jsonOk)
    => /\ pc = "done" /\ fin = "raised"
       /\ err = "JsonParseError" /\ qret = "none"

\* C22: when RawApiClient.query gets a failed response other than a 401
\* (a 502/503 only with the budget used up), it raises at that request:
\* HttpError exactly when the content type is application/json and the
\* decoded body has a non-null error, else the transport's HTTPError. It
\* returns nothing and takes nothing from the budget; a status other than
\* 502/503 is not retried whatever the budget.
C22_HttpErrorWhenJsonErrorBody ==
    [][ (client = "raw" /\ pc = "q_send" /\ requests' = requests + 1
         /\ resp'.ctype # "timeout" /\ resp'.status \notin {200, 401}
         /\ (resp'.status \in {502, 503} => tries_left = 0))
        => /\ pc' = "done" /\ fin' = "raised"
           /\ err' = (IF resp'.ctype = "json" /\ resp'.jsonOk /\ resp'.errMsg
                      THEN "HttpError" ELSE "HTTPError")
           /\ qret' = qret /\ tries_left' = tries_left
      ]_vars

C22_Witness ==
    /\ client = "raw" /\ op = "query" /\ pc = "done" /\ fin = "raised"
    /\ resp.status = 404 /\ resp.ctype = "json" /\ resp.errMsg
    /\ err = "HttpError" /\ requests = 1 /\ tries_left = MaxTries
    /\ qret = "none"

\* C23: a 502 or 503 response reaches the caller of ConnectApiClient._query
\* only when the budget is used up (it is retried while tries_left > 0, as
\* a read timeout is), and one call issues at most tries_left + 1 requests.
C23_ConnectRetries502And503 ==
    (client = "connect" /\ requests >= 1) =>
        /\ requests <= tries0 + 1
        /\ (pc = "done" /\ resp.status \in {502, 503} => tries_left = 0)

\* C24: every request RawApiClient.query sends again after a 502, a 503 or
\* a read timeout has the JSON body and the params of the first request of
\* that call: page_start, limit, app_id and all else are the same.
C24_RetrySendsSameRequest ==
    (client = "raw" /\ lastSent.sent) =>
        /\ lastSent.body = firstSent.body
        /\ lastSent.params = firstSent.params

C24_Witness ==
    /\ client = "raw" /\ op = "paged_query" /\ pages = 1 /\ pc = "page"
    /\ requests = DEFAULT_RETRIES + 1
    /\ lastSent.body.page_start # None /\ lastSent.body.limit # None
    /\ lastSent.params.app_id
    /\ lastSent = firstSent

\* C25: at every page request of paged_query the limit of the query's kind
\* body is min(batch_size, limit - results received so far), batch_size
\* when limit is null; the limit the caller put in the query body is never
\* sent.
C25_PageLimitIsRemaining ==
    (client = "raw" /\ op = "paged_query" /\ pc = "q_send") =>
        /\ heap[qRef].limit = (IF limit = None THEN batch_size
                               ELSE Min(batch_size, limit - n_results))
        /\ (origQuery.limit # None => heap[qRef].limit # origQuery.limit)

\* C26: the first request of a page posts the body of the page before it
\* with one change, page_start, which is the next_page_start of the response
\* just received; the limit, every other field and the params are the same.
C26_OnlyPageStartChanges ==
    [][ (op = "paged_query" /\ pc = "q_send" /\ firstSent.sent
         /\ requests = 0 /\ requests' = 1)
        => /\ firstSent'.body =
                 [firstSent.body EXCEPT !.page_start = next_page_start(resp)]
           /\ firstSent'.params = firstSent.params
      ]_vars

C26_Witness ==
    /\ client = "raw" /\ op = "paged_query" /\ pages = 2 /\ pc = "done"
    /\ fin = "returned" /\ limit = None
    /\ firstSent.body.page_start = batch_size
    /\ firstSent.body.limit = batch_size
    /\ origQuery.limit # None

\* The three termination conditions of paged_query for response r with n
\* results seen and the limit lim.
PagingOver(r, n, lim) ==
    \/ lim # None /\ n >= lim
    \/ total_count(r) # None /\ total_count(r) <= n
    \/ has_more_results(r) = "False"

\* C27: once a page of a RawApiClient.paged_query run is processed, the run
\* ends without an error exactly when the limit is reached, or total_count
\* is at most n_results, or has_more_results is False; otherwise the next
\* page is requested. (Responses whose counts cannot be read at all, and
\* items that cannot be hashed, are left to C18 and C14.)
C27_EndsIffAConditionHolds ==
    (/\ client = "raw" /\ op = "paged_query" /\ pages >= 1 /\ hashable
     /\ resp.status = 200 /\ qret # "none"
     /\ returned_count(resp) # KeyErr /\ total_count(resp) # KeyErr
     /\ has_more_results(resp) # "KeyError")
    => /\ (pc = "done" /\ fin # "abandoned")
            => (fin = "returned" /\ PagingOver(resp, n_results, limit))
       /\ (pc \in {"q_enter", "q_send"} /\ requests = 0)
            => ~PagingOver(resp, n_results, limit)

\* C29: in a RawApiClient.paged_query run the request of every page starts
\* with the budget DEFAULT_RETRIES, whatever the pages before it used, and
\* issues at most DEFAULT_RETRIES + 1 requests; the run's requests are at
\* most (DEFAULT_RETRIES + 1) for each page asked for.
C29_FreshBudgetPerPage ==
    (client = "raw" /\ op = "paged_query" /\ pc \in {"q_enter", "q_send"}) =>
        /\ tries_left = DEFAULT_RETRIES - requests
        /\ requests <= DEFAULT_RETRIES + 1
        /\ totalRequests <= pages * (DEFAULT_RETRIES + 1) + requests

C29_Witness ==
    /\ client = "raw" /\ op = "paged_query" /\ pc = "done"
    /\ fin = "returned" /\ pages = 2
    /\ totalRequests = 2 * (DEFAULT_RETRIES + 1)
    /\ totalRequests > DEFAULT_RETRIES + 2

\* C30 as stated: a scan query that carries page_start is sent at most once
\* by a RawApiClient.query call, whatever the failure.
C30_ScanCursorSentOnce ==
    (client = "raw" /\ lastSent.sent /\ scan_with_cursor(lastSent.body))
        => requests <= 1

\* C30: a RawApiClient.query call does not send a scan query that carries
\* page_start again after a read timeout; after a 502 or 503 it sends the
\* same query again while tries_left > 0, so at most tries_left + 1 times
\* in the call.
C30_ScanCursorResentOn502Only ==
    /\ [](client = "raw" /\ lastSent.sent /\ scan_with_cursor(lastSent.body)
           => requests <= tries0 + 1)
    /\ [][ (client = "raw" /\ pc = "q_send" /\ requests' = requests + 1
            /\ scan_with_cursor(heap[qRef]) /\ Transient(resp'))
           => IF resp'.ctype = "timeout"
              THEN pc' = "done" /\ fin' = "raised" /\ err' = "ReadTimeout"
              ELSE IF tries_left > 0
              THEN /\ pc' = "q_enter" /\ tries_left' = tries_left - 1
                   /\ heap'[qRef] = heap[qRef]
              ELSE pc' = "done" /\ fin' = "raised"
         ]_vars

C30_Witness ==
    /\ client = "raw" /\ op = "query" /\ pc = "done" /\ fin = "returned"
    /\ scan_with_cursor(lastSent.body) /\ lastSent = firstSent
    /\ requests = DEFAULT_RETRIES + 1 /\ tries_left = 0

\* C28: for every nested mapping d and keys a, b, dot_index("a.b", d)
\* gives what dot_index("b", r) gives for r the result of dot_index("a", d).
C28_DotIndexComposes ==
    dot.called => dot.whole = dot.second

====
